---- MODULE Spec2Model ----
(***************************************************************************)
(* unsafe_cell_slice: a copyable view (UnsafeCellSlice) over a slice of    *)
(* UnsafeCell<T>, built from a mutable slice or from the spare capacity of *)
(* a Vec, handing out mutable references to elements and subslices.        *)
(*                                                                         *)
(* The backing memory is `storage`, the allocation of one Vec (`vec`).     *)
(* A slice or a view is a pointer and a length, a reference is a pointer   *)
(* and a length too.  Callers are the Workers: each holds at most one      *)
(* copy of the view and runs one task on it: one request, the stores       *)
(* through the reference it got, and the end of that reference.            *)
(***************************************************************************)
EXTENDS Integers, FiniteSets, Sequences, TLC

\* ---------------------------------------------------------------- bounds
\* Width of usize in bits (scaled down from 64).
IndexBits == 16
\* Largest capacity of the Vec (a slice is never longer than isize::MAX).
MaxCap == 4
\* Index values of a request are drawn from 0..MaxIdx and UsizeMax.
MaxIdx == 5

UsizeMax == 2^IndexBits - 1

Workers == {"w1", "w2"}
\* The values each worker stores.
Stores(w) == IF w = "w1" THEN {0, 10} ELSE {0, 20}

\* The content of a cell of the spare capacity: no value of T.
Uninit == 0 - 1

\* Option<&mut _>::None, a panic, and a reference to len cells from address ptr.
None == [kind |-> "none", ptr |-> 0, len |-> 0]
Abort == [kind |-> "abort", ptr |-> 0, len |-> 0]
Some(p, n) == [kind |-> "some", ptr |-> p, len |-> n]

\* A worker holding no copy of the view.
NoView == [ptr |-> 0 - 1, len |-> 0]

VARIABLES
  vec,      \* the Vec: [ptr, cap, len]
  storage,  \* the Vec's allocation: address -> value or Uninit
  pc,       \* "owned": no view exists; "shared": a view exists;
            \* "aborted": the process panicked; "done": the view is gone
  ctor,     \* which constructor built the view: "none", "new", "spare"
  handle,   \* the copy of the view each worker holds, or NoView
  ref,      \* the live reference each worker holds, or None
  task,     \* each worker's task: "idle" (no request made yet), "busy"
            \* (holding a reference), "finished"
  ret,      \* the last operation and what it returned
  expect,   \* history: address -> the value last written to it on purpose
  cut       \* the callers' partition: w1 works on view positions below cut,
            \* w2 on those from cut on (only SpecDisjoint holds them to it)

vars == <<vec, storage, pc, ctor, handle, ref, task, ret, expect, cut>>

\* ------------------------------------------------------------ index requests
Idx == (0..MaxIdx) \cup {UsizeMax}

Single(p) == [shape |-> "Single", a |-> p, b |-> 0]
Full == [shape |-> "Full", a |-> 0, b |-> 0]
From(lo) == [shape |-> "From", a |-> lo, b |-> 0]
To(hi) == [shape |-> "To", a |-> 0, b |-> hi]
ToIncl(hi) == [shape |-> "ToIncl", a |-> 0, b |-> hi]
Excl(lo, hi) == [shape |-> "Excl", a |-> lo, b |-> hi]
Incl(lo, hi) == [shape |-> "Incl", a |-> lo, b |-> hi]

RangeRequests(I) ==
  {Full} \cup {From(i) : i \in I} \cup {To(i) : i \in I}
         \cup {ToIncl(i) : i \in I}
         \cup {Excl(i, j) : i \in I, j \in I}
         \cup {Incl(i, j) : i \in I, j \in I}

Requests(I) == {Single(i) : i \in I} \cup RangeRequests(I)

AllRequests == Requests(Idx)
SmallRequests == Requests(0 .. MaxCap)

\* The bound shape resolved against a length n: the start of the target.
ResolveLo(req, n) ==
  CASE req.shape \in {"Single", "From", "Excl", "Incl"} -> req.a
    [] OTHER -> 0

\* The slip: the end of an inclusive range computed in usize, where
\* usize::MAX + 1 wraps to 0.
ResolveHi_wrapping(req, n) ==
  CASE req.shape = "Single" -> req.a + 1
    [] req.shape \in {"Full", "From"} -> n
    [] req.shape \in {"To", "Excl"} -> req.b
    [] OTHER -> (req.b + 1) % (2^IndexBits)

\* The bound shape resolved against a length n: one past the end of the target.
ResolveHi(req, n) ==
  CASE req.shape = "Single" -> req.a + 1
    [] req.shape \in {"Full", "From"} -> n
    [] req.shape \in {"To", "Excl"} -> req.b
    [] OTHER -> req.b + 1

InBounds(req, n) ==
  IF req.shape = "Single"
    THEN req.a < n
    ELSE ResolveLo(req, n) <= ResolveHi(req, n) /\ ResolveHi(req, n) <= n

\* The slip: the target taken to start where it ends.
MakeRef_from_end(req, view) ==
  Some(view.ptr + ResolveHi(req, view.len),
       ResolveHi(req, view.len) - ResolveLo(req, view.len))

\* The reference a request yields: the address and the length of its target.
MakeRef(req, view) ==
  Some(view.ptr + ResolveLo(req, view.len),
       ResolveHi(req, view.len) - ResolveLo(req, view.len))

SliceIndex_get_mut(req, view) ==
  IF InBounds(req, view.len) THEN MakeRef(req, view) ELSE None

SliceIndex_index_mut(req, view) ==
  IF InBounds(req, view.len) THEN MakeRef(req, view) ELSE Abort

\* ------------------------------------------------------------ UnsafeCellSlice
as_mut_slice(v) == [ptr |-> v.ptr, len |-> v.len]

\* The slip: the length taken in bytes (of a two-byte T), not in elements.
new_len_in_bytes(slice) == [ptr |-> slice.ptr, len |-> 2 * slice.len]

new(slice) == [ptr |-> slice.ptr, len |-> slice.len]

\* The slip: the Vec's own pointer (as_mut_ptr), not that of its spare capacity.
vec_spare_capacity_from_start(v) ==
  [ptr |-> v.ptr, len |-> v.cap - v.len]

vec_spare_capacity_to_mut_slice(v) ==
  [ptr |-> v.ptr + v.len, len |-> v.cap - v.len]

new_from_vec_with_spare_capacity(v) == new(vec_spare_capacity_to_mut_slice(v))

len(view) == view.len

\* The slip: the test inverted.
is_empty_inverted(view) == len(view) # 0

is_empty(view) == len(view) = 0

\* The slip: get_mut hands the request to the panicking accessor.
get_mut_panicking(view, req) == SliceIndex_index_mut(req, view)

get_mut(view, req) == SliceIndex_get_mut(req, view)

\* The slip: index_mut skips the bounds check.
index_mut_unchecked(view, req) == MakeRef(req, view)

index_mut(view, req) == SliceIndex_index_mut(req, view)

\* ------------------------------------------------------------ state machine
\* The addresses a reference covers.
Cells(r) == IF r.kind = "some" THEN r.ptr .. (r.ptr + r.len - 1) ELSE {}

\* The address is covered by a live reference of another worker.
Aliased(w, a) == \E u \in Workers \ {w} : a \in Cells(ref[u])

\* The first position a request is meant to reach (the caller's intent).
Meant(req) ==
  CASE req.shape \in {"Single", "From", "Excl", "Incl"} -> req.a
    [] OTHER -> 0

InitStorage(v) == [a \in 0 .. (v.cap - 1) |-> IF a < v.len THEN 0 ELSE Uninit]

\* Where the region handed to the constructor starts in the allocation.
RegionBase == IF ctor = "spare" THEN vec.ptr + vec.len ELSE vec.ptr

InitWith(caps, c) ==
  /\ \E cp \in caps : \E l \in 0 .. cp : vec = [ptr |-> 0, cap |-> cp, len |-> l]
  /\ storage = InitStorage(vec)
  /\ pc = "owned"
  /\ ctor = "none"
  /\ handle = [w \in Workers |-> NoView]
  /\ ref = [w \in Workers |-> None]
  /\ task = [w \in Workers |-> "idle"]
  /\ ret = [op |-> "init"]
  /\ expect = storage
  /\ cut \in c

Init == InitWith(0 .. MaxCap, {0})

New ==
  /\ pc = "owned"
  /\ pc' = "shared"
  /\ ctor' = "new"
  /\ handle' = [handle EXCEPT !["w1"] = new(as_mut_slice(vec))]
  /\ ret' = [op |-> "new"]
  /\ UNCHANGED <<vec, storage, ref, task, expect, cut>>

NewFromVecWithSpareCapacity ==
  /\ pc = "owned"
  /\ pc' = "shared"
  /\ ctor' = "spare"
  /\ handle' = [handle EXCEPT !["w1"] = new_from_vec_with_spare_capacity(vec)]
  /\ ret' = [op |-> "new_from_vec_with_spare_capacity"]
  /\ UNCHANGED <<vec, storage, ref, task, expect, cut>>

\* #[derive(Copy, Clone)]: worker w hands a copy of its view to worker u.
Copy(w, u) ==
  /\ pc = "shared"
  /\ handle[w] # NoView
  /\ handle[u] = NoView
  /\ handle' = [handle EXCEPT ![u] = handle[w]]
  /\ ret' = [op |-> "copy", w |-> u]
  /\ UNCHANGED <<vec, storage, pc, ctor, ref, task, expect, cut>>

LenOp(w) ==
  /\ pc = "shared"
  /\ handle[w] # NoView
  /\ ret' = [op |-> "len", w |-> w, out |-> len(handle[w])]
  /\ UNCHANGED <<vec, storage, pc, ctor, handle, ref, task, expect, cut>>

IsEmptyOp(w) ==
  /\ pc = "shared"
  /\ handle[w] # NoView
  /\ ret' = [op |-> "is_empty", w |-> w, out |-> is_empty(handle[w])]
  /\ UNCHANGED <<vec, storage, pc, ctor, handle, ref, task, expect, cut>>

\* The reference a worker keeps, with the position it was meant for.
Kept(r, req) == [kind |-> r.kind, ptr |-> r.ptr, len |-> r.len, want |-> Meant(req)]

\* The slip: get_mut keeps track of the references handed out and refuses a
\* request that overlaps one of them.
GetMut_checked(w, req) ==
  /\ pc = "shared"
  /\ handle[w] # NoView
  /\ task[w] = "idle"
  /\ LET g == get_mut(handle[w], req)
         r == IF \E a \in Cells(g) : Aliased(w, a) THEN None ELSE g
     IN
       /\ ref' = [ref EXCEPT ![w] = IF r.kind = "some" THEN Kept(r, req) ELSE @]
       /\ task' = [task EXCEPT ![w] = IF r.kind = "some" THEN "busy" ELSE "finished"]
       /\ ret' = [op |-> "get_mut", w |-> w, req |-> req, out |-> r]
  /\ UNCHANGED <<vec, storage, pc, ctor, handle, expect, cut>>

\* The slip: get_mut waits for the other references to end (a lock).
GetMut_locking(w, req) ==
  /\ pc = "shared"
  /\ handle[w] # NoView
  /\ task[w] = "idle"
  /\ \A u \in Workers \ {w} : ref[u].kind = "none"
  /\ LET r == get_mut(handle[w], req) IN
       /\ ref' = [ref EXCEPT ![w] = IF r.kind = "some" THEN Kept(r, req) ELSE @]
       /\ task' = [task EXCEPT ![w] = IF r.kind = "some" THEN "busy" ELSE "finished"]
       /\ ret' = [op |-> "get_mut", w |-> w, req |-> req, out |-> r]
  /\ UNCHANGED <<vec, storage, pc, ctor, handle, expect, cut>>

\* The slip: get_mut initialises the cells it hands out.
GetMut_initialising(w, req) ==
  /\ pc = "shared"
  /\ handle[w] # NoView
  /\ task[w] = "idle"
  /\ LET r == get_mut(handle[w], req) IN
       /\ ref' = [ref EXCEPT ![w] = IF r.kind = "some" THEN Kept(r, req) ELSE @]
       /\ task' = [task EXCEPT ![w] = IF r.kind = "some" THEN "busy" ELSE "finished"]
       /\ ret' = [op |-> "get_mut", w |-> w, req |-> req, out |-> r]
       /\ storage' = [a \in DOMAIN storage |-> IF a \in Cells(r) THEN 0 ELSE storage[a]]
  /\ UNCHANGED <<vec, pc, ctor, handle, expect, cut>>

GetMut(w, req) ==
  /\ pc = "shared"
  /\ handle[w] # NoView
  /\ task[w] = "idle"
  /\ LET r == get_mut(handle[w], req) IN
       /\ ref' = [ref EXCEPT ![w] = IF r.kind = "some" THEN Kept(r, req) ELSE @]
       /\ task' = [task EXCEPT ![w] = IF r.kind = "some" THEN "busy" ELSE "finished"]
       /\ ret' = [op |-> "get_mut", w |-> w, req |-> req, out |-> r]
  /\ UNCHANGED <<vec, storage, pc, ctor, handle, expect, cut>>

IndexMut(w, req) ==
  /\ pc = "shared"
  /\ handle[w] # NoView
  /\ task[w] = "idle"
  /\ LET r == index_mut(handle[w], req) IN
       /\ ref' = [ref EXCEPT ![w] = IF r.kind = "some" THEN Kept(r, req) ELSE @]
       /\ task' = [task EXCEPT ![w] = IF r.kind = "some" THEN "busy" ELSE "finished"]
       /\ pc' = IF r.kind = "abort" THEN "aborted" ELSE pc
       /\ ret' = [op |-> "index_mut", w |-> w, req |-> req, out |-> r]
  /\ UNCHANGED <<vec, storage, ctor, handle, expect, cut>>

\* *r = v, or r[k] = v: a store through the live reference of worker w.  A
\* store to a cell that another live reference covers is undefined behaviour:
\* the cell ends with the value stored or keeps the one it had.
Write(w, k, v) ==
  /\ pc = "shared"
  /\ ref[w].kind = "some"
  /\ k < ref[w].len
  /\ LET a == ref[w].ptr + k IN
       /\ a \in DOMAIN storage
       /\ \E x \in IF Aliased(w, a) THEN {v, storage[a]} ELSE {v} :
            storage' = [storage EXCEPT ![a] = x]
  /\ expect' = [a \in DOMAIN expect |->
                  IF a = RegionBase + ref[w].want + k THEN v ELSE expect[a]]
  /\ ret' = [op |-> "write", w |-> w]
  /\ UNCHANGED <<vec, pc, ctor, handle, ref, task, cut>>

\* The reference of worker w goes out of scope.
Release(w) ==
  /\ pc = "shared"
  /\ ref[w].kind = "some"
  /\ ref' = [ref EXCEPT ![w] = None]
  /\ task' = [task EXCEPT ![w] = "finished"]
  /\ ret' = [op |-> "release", w |-> w]
  /\ UNCHANGED <<vec, storage, pc, ctor, handle, expect, cut>>

\* The copy of worker w goes out of scope (the view has no Drop); with the
\* last copy the borrow of the region ends.
Discard(w) ==
  /\ pc = "shared"
  /\ handle[w] # NoView
  /\ ref[w].kind = "none"
  /\ handle' = [handle EXCEPT ![w] = NoView]
  /\ pc' = IF \A u \in Workers \ {w} : handle[u] = NoView THEN "done" ELSE pc
  /\ ret' = [op |-> "discard", w |-> w]
  /\ UNCHANGED <<vec, storage, ctor, ref, task, expect, cut>>

\* ------------------------------------------------------------ specifications
\* Each specification below is the state machine above under one kind of
\* caller.  Stores happen where the callers keep apart (SpecIndex, SpecSpare,
\* SpecDisjoint); SpecAlias lets requests overlap and follows the references.
\* The positions a request is meant to reach are MeantLo .. MeantHi - 1.
MeantHi(req, n) ==
  CASE req.shape = "Single" -> req.a + 1
    [] req.shape \in {"Full", "From"} -> n
    [] req.shape \in {"To", "Excl"} -> req.b
    [] OTHER -> req.b + 1

\* The callers' discipline: each asks for some positions, worker w1 only
\* for positions below cut, worker w2 only for positions from cut on.
Mine(w, req) ==
  LET lo == Meant(req)
      hi == MeantHi(req, len(handle[w]))
  IN  /\ lo < hi
      /\ \/ w = "w1" /\ hi <= cut
         \/ w = "w2" /\ lo >= cut

\* One caller, every request shape, every index value of Idx.
NextIndex ==
  \/ New
  \/ NewFromVecWithSpareCapacity
  \/ LenOp("w1")
  \/ IsEmptyOp("w1")
  \/ \E req \in AllRequests : GetMut("w1", req)
  \/ \E req \in AllRequests : IndexMut("w1", req)
  \/ \E k \in 0 .. vec.cap, v \in Stores("w1") : Write("w1", k, v)
  \/ Release("w1")
  \/ Discard("w1")

SpecIndex == Init /\ [][NextIndex]_vars

\* The same caller, with a Vec of capacity 8 among the inputs.
InitSpare == InitWith((0 .. MaxCap) \cup {8}, {0})

SpecSpare == InitSpare /\ [][NextIndex]_vars

\* Two callers that ask for whatever they like, overlapping or not.
NextAlias ==
  \/ New
  \/ NewFromVecWithSpareCapacity
  \/ \E w \in Workers, u \in Workers : Copy(w, u)
  \/ \E w \in Workers, req \in SmallRequests : GetMut(w, req)
  \/ \E w \in Workers, req \in SmallRequests : IndexMut(w, req)
  \/ \E w \in Workers : Release(w)
  \/ \E w \in Workers : Discard(w)

SpecAlias == Init /\ [][NextAlias]_vars

\* Two callers that keep to their own positions.
InitDisjoint == InitWith({MaxCap}, 0 .. MaxCap)

NextDisjoint ==
  \/ New
  \/ NewFromVecWithSpareCapacity
  \/ \E w \in Workers, u \in Workers : Copy(w, u)
  \/ \E w \in Workers : LenOp(w)
  \/ \E w \in Workers : IsEmptyOp(w)
  \/ \E w \in Workers : task[w] = "idle" /\ \E req \in SmallRequests : Mine(w, req) /\ GetMut(w, req)
  \/ \E w \in Workers : task[w] = "idle" /\ \E req \in SmallRequests : Mine(w, req) /\ IndexMut(w, req)
  \/ \E w \in Workers, k \in 0 .. vec.cap : \E v \in Stores(w) : Write(w, k, v)
  \/ \E w \in Workers : Release(w)
  \/ \E w \in Workers : Discard(w)

SpecDisjoint == InitDisjoint /\ [][NextDisjoint]_vars

\* ------------------------------------------------------------ properties
\* The length of the region handed to the constructor.
RegionLen == IF ctor = "spare" THEN vec.cap - vec.len ELSE vec.len

\* Whether a request is in bounds of a region of n elements, as specified.
Granted(req, n) ==
  IF req.shape = "Single"
    THEN req.a < n
    ELSE Meant(req) <= MeantHi(req, n) /\ MeantHi(req, n) <= n

\* The reference a granted request denotes in a region of n elements at base.
Denoted(req, base, n) == Some(base + Meant(req), MeantHi(req, n) - Meant(req))

IsCall == ret.op \in {"get_mut", "index_mut"}

\* C1: on a view built by new over a region of N elements, get_mut(p) returns
\* a reference iff p < N, None otherwise; the reference is to the one cell at
\* position p of the region, and a store through it is what region[p] holds.
C1_GetMutSingle ==
  ctor = "new" =>
    /\ (ret.op = "get_mut" /\ ret.req.shape = "Single") =>
         ret.out = IF ret.req.a < vec.len
                     THEN Some(vec.ptr + ret.req.a, 1)
                     ELSE None
    /\ \A a \in DOMAIN storage : storage[a] = expect[a]

C1_Witness ==
  /\ ctor = "new"
  /\ vec.len = 3
  /\ ref["w1"] = [kind |-> "some", ptr |-> 2, len |-> 1, want |-> 2]
  /\ ret.op = "write"
  /\ storage[2] = 10

\* C2: a range request that resolves to [lo, hi) against N gets from get_mut
\* the subrange of hi - lo cells starting at position lo when lo <= hi <= N,
\* and None otherwise.
C2_GetMutRange ==
  (ret.op = "get_mut" /\ ret.req.shape # "Single") =>
    /\ ret.out = IF Granted(ret.req, RegionLen)
                   THEN Denoted(ret.req, RegionBase, RegionLen)
                   ELSE None
    /\ ret.out.kind = "some" =>
         /\ ref[ret.w].ptr = RegionBase + Meant(ret.req)
         /\ ref[ret.w].len = MeantHi(ret.req, RegionLen) - Meant(ret.req)
         /\ Cells(ref[ret.w]) \subseteq RegionBase .. (RegionBase + RegionLen - 1)

C2_Witness ==
  /\ ret.op = "get_mut"
  /\ ret.req = Incl(1, 2)
  /\ RegionLen = 3
  /\ ret.out = Some(RegionBase + 1, 2)

\* C3: index_mut panics exactly when get_mut on the same request returns
\* None, and otherwise returns the reference get_mut returns; a panicking
\* index_mut leaves its caller without a reference.
C3_IndexMutAbort ==
  ret.op = "index_mut" =>
    LET g == get_mut(handle[ret.w], ret.req) IN
      /\ (ret.out.kind = "abort") = (g.kind = "none")
      /\ (ret.out.kind = "abort") = ~Granted(ret.req, RegionLen)
      /\ g.kind = "some" => ret.out = g
      /\ ret.out.kind = "abort" => pc = "aborted" /\ ref[ret.w].kind = "none"
      /\ ret.out.kind # "abort" => ref[ret.w].kind = "some"

C3_Witness ==
  /\ ret.op = "index_mut"
  /\ ret.req = Single(RegionLen)
  /\ ret.out.kind = "abort"
  /\ pc = "aborted"

\* C10: an inclusive request whose upper bound is usize::MAX is never
\* granted: get_mut returns None and index_mut panics, whatever N and the
\* lower bound are.
C10_InclusiveMax ==
  (IsCall /\ ret.req.shape \in {"Incl", "ToIncl"} /\ ret.req.b = UsizeMax) =>
    /\ ret.out = IF ret.op = "get_mut" THEN None ELSE Abort
    /\ ref[ret.w].kind = "none"

C10_Witness ==
  /\ ret.op = "get_mut"
  /\ ret.req = Incl(0, UsizeMax)
  /\ RegionLen = 0
  /\ ret.out = None

\* C5: every copy of a view built by new over N elements reports len() = N
\* and is_empty() = (N = 0), whatever was requested and stored before.
C5_LenIsEmpty ==
  ctor = "new" =>
    /\ \A w \in Workers : handle[w] # NoView =>
         /\ len(handle[w]) = vec.len
         /\ is_empty(handle[w]) = (vec.len = 0)
    /\ ret.op = "len" => ret.out = vec.len
    /\ ret.op = "is_empty" => ret.out = (vec.len = 0)

C5_Witness ==
  /\ ctor = "new"
  /\ ret = [op |-> "is_empty", w |-> "w2", out |-> FALSE]
  /\ storage[0] = 10
  /\ task["w1"] = "finished"

\* C6: the view built from a Vec of capacity C and length L has C - L cells,
\* its position k is the cell L + k of the allocation, and neither building it
\* nor a store through it changes L or the cells 0 .. L-1.
C6_State ==
  ctor = "spare" =>
    /\ handle["w1"] # NoView =>
         /\ len(handle["w1"]) = vec.cap - vec.len
         /\ handle["w1"].ptr = vec.ptr + vec.len
    /\ ref["w1"].kind = "some" =>
         /\ ref["w1"].ptr = vec.ptr + vec.len + ref["w1"].want
         /\ Cells(ref["w1"]) \subseteq vec.len .. (vec.cap - 1)
    /\ \A a \in DOMAIN storage :
         /\ storage[a] = expect[a]
         /\ a < vec.len => storage[a] = InitStorage(vec)[a]

C6_SpareCapacity == []C6_State /\ [][vec' = vec]_vars

C6_Witness ==
  /\ ctor = "spare"
  /\ vec = [ptr |-> 0, cap |-> 8, len |-> 2]
  /\ len(handle["w1"]) = 6
  /\ ret.op = "write"
  /\ ref["w1"] = [kind |-> "some", ptr |-> 2, len |-> 1, want |-> 0]
  /\ storage[2] = 10
  /\ \A a \in 0 .. 1 : storage[a] = 0

\* C4: with references to two different positions live at once, a store
\* through one changes that position only; when the view is gone the region
\* holds the last value stored at each position and its old value elsewhere.
C4_Frame ==
  \A w \in Workers :
    (ret'.op = "write" /\ ret'.w = w /\ ref[w].len = 1) =>
      \A a \in DOMAIN storage :
        a # RegionBase + ref[w].want => storage'[a] = storage[a]

C4_ReadBack == pc = "done" => \A a \in DOMAIN storage : storage[a] = expect[a]

C4_DisjointWrites == []C4_ReadBack /\ [][C4_Frame]_vars

C4_Witness ==
  /\ ctor = "new"
  /\ vec.len = 4
  /\ ref["w1"] = [kind |-> "some", ptr |-> 0, len |-> 1, want |-> 0]
  /\ ref["w2"] = [kind |-> "some", ptr |-> 3, len |-> 1, want |-> 3]
  /\ \A a \in 0 .. 3 : storage[a] = IF a = 0 THEN 10 ELSE IF a = 3 THEN 20 ELSE 0

\* C7: workers that keep to disjoint positions never hold references to a
\* common cell, never wait for one another, and leave in every cell the last
\* value its one owner stored, or the old value.
C7_NoOverlap == Cells(ref["w1"]) \cap Cells(ref["w2"]) = {}

C7_NonBlocking ==
  \A w \in Workers :
    (pc = "shared" /\ handle[w] # NoView /\ task[w] = "idle") =>
      \A req \in SmallRequests :
        Mine(w, req) => ENABLED GetMut(w, req) /\ ENABLED IndexMut(w, req)

C7_OwnersValue ==
  \A a \in DOMAIN storage :
    /\ storage[a] = expect[a]
    /\ storage[a] # InitStorage(vec)[a] =>
         storage[a] \in Stores(IF a - RegionBase < cut THEN "w1" ELSE "w2")

C7_Disjoint == C7_NoOverlap /\ C7_NonBlocking /\ C7_OwnersValue

C7_Witness ==
  /\ pc = "done"
  /\ cut = 2
  /\ RegionLen = 4
  /\ \A a \in 0 .. 3 : storage[RegionBase + a] = IF a < 2 THEN 10 ELSE 20

\* C8: only a store through a live reference changes the region, and only in
\* the cells of that reference; len, is_empty, get_mut, index_mut, a copy and
\* the end of a copy change no cell, and nothing changes the length of a view.
C8_Step ==
  /\ ret'.op \in {"len", "is_empty", "get_mut", "index_mut", "copy", "discard"} =>
       storage' = storage
  /\ storage' # storage =>
       /\ ret'.op = "write"
       /\ ref[ret'.w].kind = "some"
       /\ \A a \in DOMAIN storage : a \notin Cells(ref[ret'.w]) => storage'[a] = storage[a]
  /\ \A w \in Workers : handle'[w] # NoView =>
       /\ len(handle'[w]) = RegionLen'
       /\ handle[w] # NoView => handle'[w] = handle[w]
  /\ pc # "owned" => RegionLen' = RegionLen

C8_OnlyWritesChange == [][C8_Step]_vars

C8_Witness ==
  /\ ret.op = "index_mut"
  /\ ret.out.kind = "abort"
  /\ pc = "aborted"
  /\ \E a \in DOMAIN storage : storage[a] = 10

\* C9: whether get_mut or index_mut grants a request depends on the request
\* and N only: a request in bounds is granted whatever references are live,
\* so two live references to one cell can be reached.
C9_NoAliasCheck ==
  IsCall =>
    /\ (ret.out.kind = "some") = Granted(ret.req, RegionLen)
    /\ ret.out.kind = "some" =>
         /\ ret.out = Denoted(ret.req, RegionBase, RegionLen)
         /\ ref[ret.w].kind = "some"
         /\ Cells(ref[ret.w]) = Cells(ret.out)

C9_Witness ==
  /\ ret.op = "get_mut"
  /\ ret.w = "w2"
  /\ ref["w1"].kind = "some"
  /\ ref["w1"].len = 1
  /\ ref["w2"] = ref["w1"]

====
